---- MODULE Spec2Model ----
(***************************************************************************)
(* whisper-transcribe-agent (main.go): the chat-completions ingress, the   *)
(* bounded fetcher, the transcription forwarder and the helpers they use.  *)
(* Strings are TLA+ strings; a byte slice is a sequence of numbers.        *)
(***************************************************************************)
EXTENDS Integers, Sequences, FiniteSets, TLC

VARIABLES phase, cfg, now, pc, req, chatReq, audioURL, audioData, respBody,
          fetchReply, backReply, bytesRead, gets, posts, ran, resp,
          exPc, exText, exURL, exName, exErr,
          upPc, upReq, upFile, upBackReply, upPosts, upRan, upResp

vars == <<phase, cfg, now, pc, req, chatReq, audioURL, audioData, respBody,
          fetchReply, backReply, bytesRead, gets, posts, ran, resp,
          exPc, exText, exURL, exName, exErr,
          upPc, upReq, upFile, upBackReply, upPosts, upRan, upResp>>

handlerVars == <<pc, req, chatReq, audioURL, audioData, respBody,
                 fetchReply, backReply, bytesRead, gets, posts, ran, resp>>

exVars == <<exPc, exText, exURL, exName, exErr>>

upVars == <<upPc, upReq, upFile, upBackReply, upPosts, upRan, upResp>>

(***************************************************************************)
(* Bounds of the model.                                                    *)
(***************************************************************************)
\* largest configured --max-audio-size
MaxAudio == 2
\* largest number of messages in a request
MaxMsgs == 2
\* largest value of the wall clock read by respond
MaxClock == 1
\* largest number of fragments a text given to extractURLFromText is made of
MaxFrags == 3

\* longest body an audio source streams: two bytes beyond the largest ceiling
MaxBody == MaxAudio + 2

\* the in-flight requests of the concurrent specification
Reqs == {"r1", "r2"}
\* the request of the sequential specification
OneReq == {"r1"}

(***************************************************************************)
(* Go values                                                               *)
(***************************************************************************)
\* the nil error
Nil == "<nil>"

Min(a, b) == IF a < b THEN a ELSE b

\* Go's integer division truncates toward zero
Quot(a, b) == IF a >= 0 THEN a \div b ELSE -((-a) \div b)

Digit(d) == SubSeq("0123456789", d + 1, d + 1)

RECURSIVE Digits(_)
Digits(n) == IF n < 10 THEN Digit(n) ELSE Digits(n \div 10) \o Digit(n % 10)

\* fmt's %d
Itoa(n) == IF n < 0 THEN "-" \o Digits(-n) ELSE Digits(n)

\* the i-th character of s, 1-based
Char(s, i) == SubSeq(s, i, i)

\* unicode.IsSpace, on the characters the model uses
IsSpace(c) == c \in {" ", "\t", "\n"}

\* strings.HasPrefix
HasPrefix(s, p) == Len(s) >= Len(p) /\ SubSeq(s, 1, Len(p)) = p

RECURSIVE TrimLeft(_)
TrimLeft(s) ==
    IF s # "" /\ IsSpace(Char(s, 1)) THEN TrimLeft(SubSeq(s, 2, Len(s))) ELSE s

RECURSIVE TrimRight(_)
TrimRight(s) ==
    IF s # "" /\ IsSpace(Char(s, Len(s)))
    THEN TrimRight(SubSeq(s, 1, Len(s) - 1))
    ELSE s

\* strings.TrimSpace
TrimSpace(s) == TrimRight(TrimLeft(s))

RECURSIVE FieldsFrom(_, _, _)
FieldsFrom(s, i, cur) ==
    IF i > Len(s)
    THEN (IF cur = "" THEN <<>> ELSE <<cur>>)
    ELSE IF IsSpace(Char(s, i))
         THEN (IF cur = "" THEN <<>> ELSE <<cur>>) \o FieldsFrom(s, i + 1, "")
         ELSE FieldsFrom(s, i + 1, cur \o Char(s, i))

\* strings.Fields: the maximal runs of non-space characters, in order
Fields(s) == FieldsFrom(s, 1, "")

RECURSIVE LastIndexFrom(_, _, _)
LastIndexFrom(s, c, i) ==
    IF i = 0 THEN -1
    ELSE IF Char(s, i) = c THEN i - 1
    ELSE LastIndexFrom(s, c, i - 1)

\* strings.LastIndex for a one-character needle: 0-based, -1 when absent
LastIndex(s, c) == LastIndexFrom(s, c, Len(s))

(***************************************************************************)
(* extractURLFromText (main.go 252-261)                                    *)
(***************************************************************************)
\* strings.Contains
Contains(s, p) ==
    \E i \in 1..(Len(s) - Len(p) + 1) : SubSeq(s, i, i + Len(p) - 1) = p

\* a plausible slip: the scheme is looked for anywhere in the token
IsURLTokenAnywhere(t) == Contains(t, "http://") \/ Contains(t, "https://")

\* main.go 256
IsURLToken(t) == HasPrefix(t, "http://") \/ HasPrefix(t, "https://")

RECURSIVE FirstURLToken(_, _)
FirstURLToken(tokens, i) ==
    IF i > Len(tokens) THEN ""
    ELSE IF IsURLToken(tokens[i]) THEN tokens[i]
    ELSE FirstURLToken(tokens, i + 1)

\* a plausible slip: the loop keeps going and the last match wins
ExtractLastURLToken(text) ==
    LET tokens == Fields(TrimSpace(text))
        hits == {i \in 1..Len(tokens) : IsURLToken(tokens[i])}
    IN IF hits = {} THEN ""
       ELSE tokens[CHOOSE i \in hits : \A j \in hits : j <= i]

extractURLFromText(text) == FirstURLToken(Fields(TrimSpace(text)), 1)

(***************************************************************************)
(* extractFilename (main.go 326-334)                                       *)
(***************************************************************************)
ErrExtension == "invalid or missing file extension"

RECURSIVE IndexFrom(_, _, _)
IndexFrom(s, c, i) ==
    IF i > Len(s) THEN -1
    ELSE IF Char(s, i) = c THEN i - 1
    ELSE IndexFrom(s, c, i + 1)

\* a plausible slip: strings.Index, the first dot, is taken for the extension
ExtractFilenameFirstDot(input) ==
    LET dotIndex == IndexFrom(input, ".", 1)
    IN IF dotIndex = -1 \/ dotIndex = Len(input) - 1
       THEN [name |-> "", err |-> ErrExtension]
       ELSE [name |-> "audio" \o SubSeq(input, dotIndex + 1, Len(input)),
             err |-> Nil]

extractFilename(input) ==
    LET dotIndex == LastIndex(input, ".")
    IN IF dotIndex = -1 \/ dotIndex = Len(input) - 1
       THEN [name |-> "", err |-> ErrExtension]
       ELSE [name |-> "audio" \o SubSeq(input, dotIndex + 1, Len(input)),
             err |-> Nil]

(***************************************************************************)
(* The audio source: what one GET is answered with.  contentLength is      *)
(* resp.ContentLength (-1 when the response declares none); the body is    *)
(* bodyLen bytes long and, when readErr is an error, breaks off with that  *)
(* error after them; status is never read by the program.                  *)
(***************************************************************************)
Body(n) == [i \in 1..n |-> i]

FetchReplies ==
    {[getErr |-> "connection refused", status |-> 0, contentLength |-> -1,
      bodyLen |-> 0, readErr |-> Nil]}
    \cup [getErr : {Nil}, status : {200, 404}, contentLength : (-1)..MaxBody,
          bodyLen : 0..MaxBody, readErr : {Nil, "unexpected EOF"}]

NoReply == [none |-> TRUE]

ErrDeclared(maxAudioSize) ==
    "file exceeds maximum size of "
        \o Itoa(Quot(Quot(maxAudioSize, 1024), 1024)) \o " MB"

ErrDownloaded == "downloaded file exceeds size limit"

\* io.LimitReader(body, n) read to its end: the bytes it hands over
LimitRead(bodyLen, n) == IF n <= 0 THEN 0 ELSE Min(bodyLen, n)

\* a plausible slip: a status other than 200 is made a fetch error
DownloadCheckingStatus(url, maxAudioSize, reply) ==
    IF reply.getErr # Nil
    THEN [data |-> <<>>, err |-> "HTTP get failed: " \o reply.getErr, read |-> 0]
    ELSE IF reply.status # 200
    THEN [data |-> <<>>, err |-> "HTTP status " \o Itoa(reply.status),
          read |-> 0]
    ELSE IF reply.contentLength > maxAudioSize
    THEN [data |-> <<>>, err |-> ErrDeclared(maxAudioSize), read |-> 0]
    ELSE LET n == LimitRead(reply.bodyLen, maxAudioSize + 1)
         IN IF reply.readErr # Nil /\ reply.bodyLen < maxAudioSize + 1
            THEN [data |-> <<>>, err |-> reply.readErr, read |-> n]
            ELSE IF n > maxAudioSize
            THEN [data |-> <<>>, err |-> ErrDownloaded, read |-> n]
            ELSE [data |-> SubSeq(Body(reply.bodyLen), 1, n), err |-> Nil,
                  read |-> n]

\* a plausible slip: the reader is capped at the ceiling itself, so a longer
\* body is cut to the ceiling and accepted
DownloadCappedAtCeiling(url, maxAudioSize, reply) ==
    IF reply.getErr # Nil
    THEN [data |-> <<>>, err |-> "HTTP get failed: " \o reply.getErr, read |-> 0]
    ELSE IF reply.contentLength > maxAudioSize
    THEN [data |-> <<>>, err |-> ErrDeclared(maxAudioSize), read |-> 0]
    ELSE LET n == LimitRead(reply.bodyLen, maxAudioSize)
         IN IF reply.readErr # Nil /\ reply.bodyLen < maxAudioSize
            THEN [data |-> <<>>, err |-> reply.readErr, read |-> n]
            ELSE IF n > maxAudioSize
            THEN [data |-> <<>>, err |-> ErrDownloaded, read |-> n]
            ELSE [data |-> SubSeq(Body(reply.bodyLen), 1, n), err |-> Nil,
                  read |-> n]

(***************************************************************************)
(* downloadFileWithLimit (main.go 263-286).  read is the number of body    *)
(* bytes taken from the response.                                          *)
(***************************************************************************)
downloadFileWithLimit(url, maxAudioSize, reply) ==
    IF reply.getErr # Nil
    THEN [data |-> <<>>, err |-> "HTTP get failed: " \o reply.getErr, read |-> 0]
    ELSE IF reply.contentLength > maxAudioSize
    THEN [data |-> <<>>, err |-> ErrDeclared(maxAudioSize), read |-> 0]
    ELSE LET n == LimitRead(reply.bodyLen, maxAudioSize + 1)
         IN IF reply.readErr # Nil /\ reply.bodyLen < maxAudioSize + 1
            THEN [data |-> <<>>, err |-> reply.readErr, read |-> n]
            ELSE IF n > maxAudioSize
            THEN [data |-> <<>>, err |-> ErrDownloaded, read |-> n]
            ELSE [data |-> SubSeq(Body(reply.bodyLen), 1, n), err |-> Nil,
                  read |-> n]

(***************************************************************************)
(* The transcription backend: what one POST is answered with.              *)
(***************************************************************************)
BackendBodies ==
    {"{\"text\":\"hello world\"}", "{\"text\":\"\"}", "{}", "null",
     "{\"text\":5}", "not json", ""}

BackendReplies ==
    {[doErr |-> "connection refused", readErr |-> Nil, status |-> 0, body |-> ""],
     [doErr |-> Nil, readErr |-> "unexpected EOF", status |-> 200, body |-> ""]}
    \cup [doErr : {Nil}, readErr : {Nil}, status : {200, 500},
          body : BackendBodies]

\* http.NewRequest fails when the URL does not parse; of net/url's rules the
\* model keeps "first path segment in URL cannot contain colon / missing
\* protocol scheme": a URL that starts with a colon
NewRequestErr(url) ==
    IF HasPrefix(url, ":")
    THEN "parse \"" \o url \o "\": missing protocol scheme"
    ELSE Nil

\* a plausible slip: a source without an extension is sent under the bare
\* name "audio"
SendDefaultingName(whisperServerURL, whisperModel, srcName, audio, reply) ==
    LET fn == extractFilename(srcName)
        name == IF fn.err # Nil THEN "audio" ELSE fn.name
        url == whisperServerURL \o "/v1/audio/transcriptions"
        post == [url |-> url, filename |-> name, file |-> audio,
                 model |-> whisperModel]
    IN IF NewRequestErr(url) # Nil
       THEN [respData |-> "", status |-> 0, err |-> NewRequestErr(url),
             sent |-> <<>>]
       ELSE IF reply.doErr # Nil
       THEN [respData |-> "", status |-> 0, err |-> reply.doErr,
             sent |-> <<post>>]
       ELSE IF reply.readErr # Nil
       THEN [respData |-> "", status |-> 0, err |-> reply.readErr,
             sent |-> <<post>>]
       ELSE [respData |-> reply.body, status |-> reply.status, err |-> Nil,
             sent |-> <<post>>]

\* a plausible slip: a backend status other than 200 is made an error
SendCheckingStatus(whisperServerURL, whisperModel, srcName, audio, reply) ==
    LET fn == extractFilename(srcName)
        url == whisperServerURL \o "/v1/audio/transcriptions"
        post == [url |-> url, filename |-> fn.name, file |-> audio,
                 model |-> whisperModel]
    IN IF fn.err # Nil
       THEN [respData |-> "", status |-> 0, err |-> fn.err, sent |-> <<>>]
       ELSE IF NewRequestErr(url) # Nil
       THEN [respData |-> "", status |-> 0, err |-> NewRequestErr(url),
             sent |-> <<>>]
       ELSE IF reply.doErr # Nil
       THEN [respData |-> "", status |-> 0, err |-> reply.doErr,
             sent |-> <<post>>]
       ELSE IF reply.readErr # Nil
       THEN [respData |-> "", status |-> 0, err |-> reply.readErr,
             sent |-> <<post>>]
       ELSE IF reply.status # 200
       THEN [respData |-> "", status |-> 0,
             err |-> "backend status " \o Itoa(reply.status), sent |-> <<post>>]
       ELSE [respData |-> reply.body, status |-> reply.status, err |-> Nil,
             sent |-> <<post>>]

(***************************************************************************)
(* sendToTranscription (main.go 288-324).  sent is the sequence of         *)
(* requests handed to http.DefaultClient.Do.                               *)
(***************************************************************************)
sendToTranscription(whisperServerURL, whisperModel, srcName, audio, reply) ==
    LET fn == extractFilename(srcName)
        url == whisperServerURL \o "/v1/audio/transcriptions"
        post == [url |-> url, filename |-> fn.name, file |-> audio,
                 model |-> whisperModel]
    IN IF fn.err # Nil
       THEN [respData |-> "", status |-> 0, err |-> fn.err, sent |-> <<>>]
       ELSE IF NewRequestErr(url) # Nil
       THEN [respData |-> "", status |-> 0, err |-> NewRequestErr(url),
             sent |-> <<>>]
       ELSE IF reply.doErr # Nil
       THEN [respData |-> "", status |-> 0, err |-> reply.doErr,
             sent |-> <<post>>]
       ELSE IF reply.readErr # Nil
       THEN [respData |-> "", status |-> 0, err |-> reply.readErr,
             sent |-> <<post>>]
       ELSE [respData |-> reply.body, status |-> reply.status, err |-> Nil,
             sent |-> <<post>>]

(***************************************************************************)
(* encoding/json, on the request and backend bodies the model uses.  A     *)
(* request body is described by the JSON value it holds: json is "invalid" *)
(* (not JSON), "null", "array" or "object"; for an object, field says what *)
(* its "messages" member is ("absent", "null", "string" or "array") and    *)
(* messages holds the elements of the array.                               *)
(***************************************************************************)
HasSuffix(s, p) ==
    Len(s) >= Len(p) /\ SubSeq(s, Len(s) - Len(p) + 1, Len(s)) = p

\* a plausible slip: a null "messages" member is refused by the decoder
DecodeRejectingNull(body) ==
    IF body.json = "object" /\ body.field = "array"
    THEN [Messages |-> body.messages, err |-> Nil]
    ELSE IF body.json = "object" /\ body.field = "absent"
    THEN [Messages |-> <<>>, err |-> Nil]
    ELSE [Messages |-> <<>>, err |-> "json: unexpected value"]

\* json.NewDecoder(r.Body).Decode(&chatReq) (main.go 91-92)
DecodeChatRequest(body) ==
    CASE body.json = "invalid" ->
           [Messages |-> <<>>,
            err |-> "invalid character 'x' looking for beginning of value"]
      [] body.json = "array" ->
           [Messages |-> <<>>,
            err |-> "json: cannot unmarshal array into Go value of type main.ChatCompletionRequest"]
      [] body.json = "null" -> [Messages |-> <<>>, err |-> Nil]
      [] body.json = "object" /\ body.field = "string" ->
           [Messages |-> <<>>,
            err |-> "json: cannot unmarshal string into Go struct field ChatCompletionRequest.messages of type []main.ChatMessage"]
      [] body.json = "object" /\ body.field \in {"absent", "null"} ->
           [Messages |-> <<>>, err |-> Nil]
      [] body.json = "object" /\ body.field = "array" ->
           [Messages |-> body.messages, err |-> Nil]

\* json.Unmarshal(respBody, &transcriptResp) (main.go 122-125)
UnmarshalTranscript(raw) ==
    LET open == "{\"text\":\""
        close == "\"}"
    IN CASE raw = "" -> [Text |-> "", err |-> "unexpected end of JSON input"]
         [] raw \in {"null", "{}"} -> [Text |-> "", err |-> Nil]
         [] HasPrefix(raw, open) /\ HasSuffix(raw, close)
              /\ Len(raw) >= Len(open) + Len(close) ->
              [Text |-> SubSeq(raw, Len(open) + 1, Len(raw) - Len(close)),
               err |-> Nil]
         [] HasPrefix(raw, "{\"text\":") /\ ~HasPrefix(raw, open) ->
              [Text |-> "",
               err |-> "json: cannot unmarshal number into Go struct field .text of type string"]
         [] OTHER ->
              [Text |-> "",
               err |-> "invalid character 'o' in literal null (expecting 'u')"]

(***************************************************************************)
(* respond (main.go 57-84): the response it writes.                        *)
(***************************************************************************)
\* a plausible slip: an error is answered with status 500
RespondErrorStatus(model, created, text, err) ==
    [status |-> IF err # Nil THEN 500 ELSE 200,
     contentType |-> "application/json",
     body |-> [id |-> "chatcmpl-mockid", object |-> "chat.completion",
               created |-> created, model |-> model,
               choices |-> <<[index |-> 0,
                              message |-> [role |-> "assistant",
                                           content |-> IF err # Nil
                                                       THEN text \o ": " \o err
                                                       ELSE text],
                              finish_reason |-> "stop"]>>]]

\* a plausible slip: the error replaces the text instead of following it
RespondErrorOnly(model, created, text, err) ==
    [status |-> 200,
     contentType |-> "application/json",
     body |-> [id |-> "chatcmpl-mockid", object |-> "chat.completion",
               created |-> created, model |-> model,
               choices |-> <<[index |-> 0,
                              message |-> [role |-> "assistant",
                                           content |-> IF err # Nil
                                                       THEN err ELSE text],
                              finish_reason |-> "stop"]>>]]

\* a plausible slip: the text is stamped with the time of the response
RespondStampedText(model, created, text, err) ==
    [status |-> 200,
     contentType |-> "application/json",
     body |-> [id |-> "chatcmpl-mockid", object |-> "chat.completion",
               created |-> created, model |-> model,
               choices |-> <<[index |-> 0,
                              message |-> [role |-> "assistant",
                                           content |-> Itoa(created) \o " "
                                               \o (IF err # Nil
                                                   THEN text \o ": " \o err
                                                   ELSE text)],
                              finish_reason |-> "stop"]>>]]

respond(model, created, text, err) ==
    [status |-> 200,
     contentType |-> "application/json",
     body |-> [id |-> "chatcmpl-mockid", object |-> "chat.completion",
               created |-> created, model |-> model,
               choices |-> <<[index |-> 0,
                              message |-> [role |-> "assistant",
                                           content |-> IF err # Nil
                                                       THEN text \o ": " \o err
                                                       ELSE text],
                              finish_reason |-> "stop"]>>]]

(***************************************************************************)
(* Inputs                                                                  *)
(***************************************************************************)
BaseURLs == {"", "http://whisper:9000", "::bad"}
Models == {"", "base"}
AudioSizes == (-2)..MaxAudio

\* the backend URL that does not parse is tried with the largest ceiling only
Configs ==
    {c \in [baseURL : BaseURLs, whisperModel : Models, maxAudioSize : AudioSizes] :
        c.baseURL = "::bad" => c.maxAudioSize \in {0, MaxAudio}}

Contents ==
    {"", "hello there", "xhttp://a.mp3 HTTPS://B.MP3",
     "see https://a/b.mp3 and http://c/d.wav", "get\thttp://h/noext"}

ChatMessages == [Role : {"user"}, Content : Contents]

MessageSeqs == UNION {[1..n -> ChatMessages] : n \in 0..MaxMsgs}

RequestBodies ==
    {[json |-> j, field |-> "absent", messages |-> <<>>] :
        j \in {"invalid", "null", "array", "object"}}
    \cup {[json |-> "object", field |-> f, messages |-> <<>>] :
        f \in {"null", "string"}}
    \cup {[json |-> "object", field |-> "array", messages |-> m] :
        m \in MessageSeqs}

Requests == [Method : {"GET", "POST"}, Body : RequestBodies]

\* no upload request received
NoUpload ==
    [Method |-> "", form |-> "none", bodyLen |-> 0, hasFile |-> FALSE,
     filename |-> "", fileLen |-> 0, readErr |-> Nil]

Stages == <<"method", "parse", "messages", "extract", "fetch", "forward",
            "unmarshal">>

(***************************************************************************)
(* Startup (main.go 36-45) and the state before any request.               *)
(***************************************************************************)
InitHandlers ==
    /\ now = 0
    /\ pc = [r \in Reqs |-> "idle"]
    /\ req = [r \in Reqs |-> [Method |-> "", Body |-> [json |-> "null", field |-> "absent", messages |-> <<>>]]]
    /\ chatReq = [r \in Reqs |-> <<>>]
    /\ audioURL = [r \in Reqs |-> ""]
    /\ audioData = [r \in Reqs |-> <<>>]
    /\ respBody = [r \in Reqs |-> ""]
    /\ fetchReply = [r \in Reqs |-> NoReply]
    /\ backReply = [r \in Reqs |-> NoReply]
    /\ bytesRead = [r \in Reqs |-> 0]
    /\ gets = [r \in Reqs |-> <<>>]
    /\ posts = [r \in Reqs |-> <<>>]
    /\ ran = [r \in Reqs |-> <<>>]
    /\ resp = [r \in Reqs |-> <<>>]
    /\ upPc = "idle"
    /\ upReq = NoUpload
    /\ upFile = <<>>
    /\ upBackReply = NoReply
    /\ upPosts = <<>>
    /\ upRan = <<>>
    /\ upResp = <<>>

InitExtractIdle ==
    /\ exPc = "off"
    /\ exText = ""
    /\ exURL = ""
    /\ exName = ""
    /\ exErr = Nil

Init ==
    /\ phase = "boot"
    /\ cfg \in Configs
    /\ InitHandlers
    /\ InitExtractIdle

Startup ==
    /\ phase = "boot"
    /\ phase' = IF cfg.baseURL = "" \/ cfg.whisperModel = "" \/ cfg.maxAudioSize = 0
                THEN "fatal"
                ELSE "serving"
    /\ UNCHANGED <<cfg, now, handlerVars, exVars, upVars>>

\* time.Now() moves on
Tick ==
    /\ phase = "serving"
    /\ now < MaxClock
    /\ now' = now + 1
    /\ UNCHANGED <<phase, cfg, handlerVars, exVars, upVars>>

(***************************************************************************)
(* The /v1/chat/completions handler (main.go 56-131), one action per       *)
(* stage.  r names the request being served; ran[r] lists the stages that  *)
(* have run for it, gets[r] and posts[r] the requests it has issued to the *)
(* audio source and to the backend, resp[r] the responses written to its   *)
(* caller.                                                                 *)
(***************************************************************************)
Respond(r, text, err) ==
    /\ resp' = [resp EXCEPT ![r] = Append(@, respond(cfg.whisperModel, now, text, err))]
    /\ pc' = [pc EXCEPT ![r] = "done"]

Goto(r, label) ==
    /\ resp' = resp
    /\ pc' = [pc EXCEPT ![r] = label]

Ran(r, stage) == ran' = [ran EXCEPT ![r] = Append(@, stage)]

\* the HTTP server hands a request to the handler
Arrive(r, requests) ==
    /\ phase = "serving"
    /\ pc[r] = "idle"
    /\ \E q \in requests : req' = [req EXCEPT ![r] = q]
    /\ pc' = [pc EXCEPT ![r] = "method"]
    /\ UNCHANGED <<phase, cfg, now, chatReq, audioURL, audioData, respBody,
                   fetchReply, backReply, bytesRead, gets, posts, ran, resp,
                   exVars, upVars>>

\* a plausible slip: the body is decoded before the method is looked at
CheckMethodAfterParse(r) ==
    /\ pc[r] = "method"
    /\ IF DecodeChatRequest(req[r].Body).err # Nil
       THEN /\ ran' = [ran EXCEPT ![r] = @ \o <<"parse">>]
            /\ Respond(r, "Invalid JSON", DecodeChatRequest(req[r].Body).err)
       ELSE /\ Ran(r, "method")
            /\ IF req[r].Method # "POST"
               THEN Respond(r, "Method not allowed", Nil)
               ELSE Goto(r, "parse")
    /\ UNCHANGED <<phase, cfg, now, req, chatReq, audioURL, audioData, respBody,
                   fetchReply, backReply, bytesRead, gets, posts, exVars, upVars>>

\* main.go 86-89
CheckMethod(r) ==
    /\ pc[r] = "method"
    /\ Ran(r, "method")
    /\ IF req[r].Method # "POST"
       THEN Respond(r, "Method not allowed", Nil)
       ELSE Goto(r, "parse")
    /\ UNCHANGED <<phase, cfg, now, req, chatReq, audioURL, audioData, respBody,
                   fetchReply, backReply, bytesRead, gets, posts, exVars, upVars>>

\* main.go 91-95
ParseBody(r) ==
    /\ pc[r] = "parse"
    /\ Ran(r, "parse")
    /\ LET d == DecodeChatRequest(req[r].Body)
       IN /\ chatReq' = [chatReq EXCEPT ![r] = d.Messages]
          /\ IF d.err # Nil
             THEN Respond(r, "Invalid JSON", d.err)
             ELSE Goto(r, "messages")
    /\ UNCHANGED <<phase, cfg, now, req, audioURL, audioData, respBody,
                   fetchReply, backReply, bytesRead, gets, posts, exVars, upVars>>

\* main.go 97-100
CheckMessages(r) ==
    /\ pc[r] = "messages"
    /\ Ran(r, "messages")
    /\ IF Len(chatReq[r]) = 0
       THEN Respond(r, "No messages provided", Nil)
       ELSE Goto(r, "extract")
    /\ UNCHANGED <<phase, cfg, now, req, chatReq, audioURL, audioData, respBody,
                   fetchReply, backReply, bytesRead, gets, posts, exVars, upVars>>

\* a plausible slip: the first message is the one read
FirstMessage(messages) == messages[1]

\* main.go 102
LastMessage(messages) == messages[Len(messages)]

\* main.go 102-107
ExtractURL(r) ==
    /\ pc[r] = "extract"
    /\ Ran(r, "extract")
    /\ LET url == extractURLFromText(LastMessage(chatReq[r]).Content)
       IN /\ audioURL' = [audioURL EXCEPT ![r] = url]
          /\ IF url = ""
             THEN Respond(r, "No audio URL found in message", Nil)
             ELSE Goto(r, "fetch")
    /\ UNCHANGED <<phase, cfg, now, req, chatReq, audioData, respBody,
                   fetchReply, backReply, bytesRead, gets, posts, exVars, upVars>>

\* a plausible slip: a fetch that fails is tried once more
DownloadRetryOnce(r, replies) ==
    /\ pc[r] = "fetch"
    /\ Ran(r, "fetch")
    /\ \E first \in replies, second \in replies :
         LET d1 == downloadFileWithLimit(audioURL[r], cfg.maxAudioSize, first)
             again == d1.err # Nil
             reply == IF again THEN second ELSE first
             d == downloadFileWithLimit(audioURL[r], cfg.maxAudioSize, reply)
         IN /\ fetchReply' = [fetchReply EXCEPT ![r] = reply]
            /\ gets' = [gets EXCEPT ![r] =
                          IF again THEN @ \o <<audioURL[r], audioURL[r]>>
                          ELSE Append(@, audioURL[r])]
            /\ bytesRead' = [bytesRead EXCEPT ![r] = d.read]
            /\ audioData' = [audioData EXCEPT ![r] = d.data]
            /\ IF d.err # Nil
               THEN Respond(r, "Failed to download audio", d.err)
               ELSE Goto(r, "forward")
    /\ UNCHANGED <<phase, cfg, now, req, chatReq, audioURL, respBody,
                   backReply, posts, exVars, upVars>>

\* main.go 109-114; the audio source answers the GET with one of replies
Download(r, replies) ==
    /\ pc[r] = "fetch"
    /\ Ran(r, "fetch")
    /\ \E reply \in replies :
         LET d == downloadFileWithLimit(audioURL[r], cfg.maxAudioSize, reply)
         IN /\ fetchReply' = [fetchReply EXCEPT ![r] = reply]
            /\ gets' = [gets EXCEPT ![r] = Append(@, audioURL[r])]
            /\ bytesRead' = [bytesRead EXCEPT ![r] = d.read]
            /\ audioData' = [audioData EXCEPT ![r] = d.data]
            /\ IF d.err # Nil
               THEN Respond(r, "Failed to download audio", d.err)
               ELSE Goto(r, "forward")
    /\ UNCHANGED <<phase, cfg, now, req, chatReq, audioURL, respBody,
                   backReply, posts, exVars, upVars>>

\* main.go 116-120; the backend answers the POST, if one is sent, with one of
\* replies
Forward(r, replies) ==
    /\ pc[r] = "forward"
    /\ Ran(r, "forward")
    /\ \E reply \in replies :
         LET s == sendToTranscription(cfg.baseURL, cfg.whisperModel,
                                      audioURL[r], audioData[r], reply)
         IN /\ backReply' = [backReply EXCEPT ![r] =
                               IF s.sent = <<>> THEN NoReply ELSE reply]
            /\ posts' = [posts EXCEPT ![r] = @ \o s.sent]
            /\ respBody' = [respBody EXCEPT ![r] = s.respData]
            /\ IF s.err # Nil
               THEN Respond(r, "Transcription error", s.err)
               ELSE Goto(r, "unmarshal")
    /\ UNCHANGED <<phase, cfg, now, req, chatReq, audioURL, audioData,
                   fetchReply, bytesRead, gets, exVars, upVars>>

\* main.go 122-130
ParseTranscript(r) ==
    /\ pc[r] = "unmarshal"
    /\ Ran(r, "unmarshal")
    /\ LET t == UnmarshalTranscript(respBody[r])
       IN IF t.err # Nil
          THEN Respond(r, "Invalid transcription response", t.err)
          ELSE Respond(r, t.Text, Nil)
    /\ UNCHANGED <<phase, cfg, now, req, chatReq, audioURL, audioData, respBody,
                   fetchReply, backReply, bytesRead, gets, posts, exVars, upVars>>

(***************************************************************************)
(* uploadHandler (main.go 170-250), one action per stage.  An upload       *)
(* request is described by its method, by whether its body is a multipart  *)
(* form, by the length of the whole body, and, when the form has a part    *)
(* named "file", by that part's filename and length and by whether reading *)
(* it back fails.  The framing of a form takes at least one byte, so the   *)
(* file is shorter than the body.                                          *)
(***************************************************************************)
UploadRequests ==
    {[Method |-> "GET", form |-> "none", bodyLen |-> 0, hasFile |-> FALSE,
      filename |-> "", fileLen |-> 0, readErr |-> Nil]}
    \cup {[Method |-> "POST", form |-> f, bodyLen |-> n, hasFile |-> FALSE,
           filename |-> "", fileLen |-> 0, readErr |-> Nil] :
             f \in {"none", "multipart"}, n \in 0..1}
    \cup {q \in [Method : {"GET", "POST"}, form : {"multipart"},
                 bodyLen : 1..(MaxBody + 1), hasFile : {TRUE},
                 filename : {"clip.WAV", "noext"}, fileLen : 0..MaxBody,
                 readErr : {Nil, "read error"}] :
             /\ q.fileLen < q.bodyLen
             /\ q.Method = "GET" => (q.fileLen = 0 /\ q.readErr = Nil)}

UploadStages == <<"method", "form", "file", "read", "forward", "render">>

\* html/template's escaping of the text put into a page
EscapeChar(c) ==
    CASE c = "&" -> "&amp;"
      [] c = "<" -> "&lt;"
      [] c = ">" -> "&gt;"
      [] c = "\"" -> "&#34;"
      [] c = "'" -> "&#39;"
      [] OTHER -> c

RECURSIVE HTMLEscape(_)
HTMLEscape(s) ==
    IF s = "" THEN ""
    ELSE EscapeChar(Char(s, 1)) \o HTMLEscape(SubSeq(s, 2, Len(s)))

\* http.Error(w, msg, code)
httpError(msg, code) ==
    [status |-> code, contentType |-> "text/plain; charset=utf-8",
     body |-> msg \o "\n"]

\* a plausible slip: a page that reports an error is sent as 502
RenderPageBadGateway(heading, text) ==
    [status |-> IF heading = "Transcription Result" THEN 200 ELSE 502,
     contentType |-> "text/html; charset=utf-8",
     body |-> "<h3>" \o heading \o ": " \o HTMLEscape(text) \o "</h3>"]

\* tmpl.Execute(w, data) on a response whose header has not been written:
\* status 200, the page under heading with the escaped text
renderPage(heading, text) ==
    [status |-> 200, contentType |-> "text/html; charset=utf-8",
     body |-> "<h3>" \o heading \o ": " \o HTMLEscape(text) \o "</h3>"]

\* http.MaxBytesReader(w, r.Body, n): the bytes it lets through
MaxBytesLimit(n) == IF n < 0 THEN 0 ELSE n

\* a plausible slip: the body is not wrapped, ParseMultipartForm's argument
\* only decides what is kept in memory
ParseFormUnbounded(q, maxSize) ==
    IF q.form # "multipart" THEN "request Content-Type isn't multipart/form-data"
    ELSE IF q.bodyLen = 0 THEN "multipart: NextPart: EOF"
    ELSE Nil

\* r.Body = http.MaxBytesReader(...); r.ParseMultipartForm(maxSize)
\* (main.go 176-177): the error, if any.  A multipart body with no byte in it
\* has no closing boundary, and the reader of its parts fails at once.
ParseForm(q, maxSize) ==
    IF q.form # "multipart" THEN "request Content-Type isn't multipart/form-data"
    ELSE IF q.bodyLen > MaxBytesLimit(maxSize) THEN "http: request body too large"
    ELSE IF q.bodyLen = 0 THEN "multipart: NextPart: EOF"
    ELSE Nil

UpRespond(response) ==
    /\ upResp' = Append(upResp, response)
    /\ upPc' = "done"

UpGoto(label) ==
    /\ upResp' = upResp
    /\ upPc' = label

UpRan(stage) == upRan' = Append(upRan, stage)

\* the HTTP server hands a request to uploadHandler
UpArrive ==
    /\ phase = "serving"
    /\ upPc = "idle"
    /\ upReq' \in UploadRequests
    /\ upPc' = "method"
    /\ UNCHANGED <<phase, cfg, now, handlerVars, exVars, upFile, upBackReply,
                   upPosts, upRan, upResp>>

\* main.go 171-174
UpCheckMethod ==
    /\ upPc = "method"
    /\ UpRan("method")
    /\ IF upReq.Method # "POST"
       THEN UpRespond(httpError("Only POST supported", 405))
       ELSE UpGoto("form")
    /\ UNCHANGED <<phase, cfg, now, handlerVars, exVars, upReq, upFile,
                   upBackReply, upPosts>>

\* main.go 176-181
UpParseForm ==
    /\ upPc = "form"
    /\ UpRan("form")
    /\ IF ParseForm(upReq, cfg.maxAudioSize) # Nil
       THEN UpRespond(httpError("File too large", 400))
       ELSE UpGoto("file")
    /\ UNCHANGED <<phase, cfg, now, handlerVars, exVars, upReq, upFile,
                   upBackReply, upPosts>>

\* main.go 183-188
UpFormFile ==
    /\ upPc = "file"
    /\ UpRan("file")
    /\ IF ~upReq.hasFile
       THEN UpRespond(httpError("Missing file", 400))
       ELSE UpGoto("read")
    /\ UNCHANGED <<phase, cfg, now, handlerVars, exVars, upReq, upFile,
                   upBackReply, upPosts>>

\* main.go 190-195
UpReadFile ==
    /\ upPc = "read"
    /\ UpRan("read")
    /\ IF upReq.readErr # Nil
       THEN /\ UpRespond(httpError("Failed to read file", 500))
            /\ upFile' = upFile
       ELSE /\ UpGoto("forward")
            /\ upFile' = Body(upReq.fileLen)
    /\ UNCHANGED <<phase, cfg, now, handlerVars, exVars, upReq, upBackReply,
                   upPosts>>

\* a plausible slip: the body read from the backend is kept in a buffer that
\* the chat handler uses too
UpForwardSharedBody(replies) ==
    /\ upPc = "forward"
    /\ UpRan("forward")
    /\ \E reply \in replies :
         LET s == sendToTranscription(cfg.baseURL, cfg.whisperModel,
                                      upReq.filename, upFile, reply)
         IN /\ upBackReply' = IF s.sent = <<>> THEN NoReply
                              ELSE [reply EXCEPT !.body = s.respData]
            /\ respBody' = [r \in Reqs |-> s.respData]
            /\ upPosts' = upPosts \o s.sent
            /\ IF s.err # Nil
               THEN UpRespond(renderPage("Error", s.err))
               ELSE UpGoto("render")
    /\ UNCHANGED <<phase, cfg, now, pc, req, chatReq, audioURL, audioData,
                   fetchReply, backReply, bytesRead, gets, posts, ran, resp,
                   exVars, upReq, upFile>>

\* main.go 197-202; the backend answers the POST, if one is sent, with one of
\* replies
UpForward(replies) ==
    /\ upPc = "forward"
    /\ UpRan("forward")
    /\ \E reply \in replies :
         LET s == sendToTranscription(cfg.baseURL, cfg.whisperModel,
                                      upReq.filename, upFile, reply)
         \* data, the body sendToTranscription returns, is kept in the reply
         IN /\ upBackReply' = IF s.sent = <<>> THEN NoReply
                              ELSE [reply EXCEPT !.body = s.respData]
            /\ upPosts' = upPosts \o s.sent
            /\ IF s.err # Nil
               THEN UpRespond(renderPage("Error", s.err))
               ELSE UpGoto("render")
    /\ UNCHANGED <<phase, cfg, now, handlerVars, exVars, upReq, upFile>>

\* main.go 204-250
UpRender ==
    /\ upPc = "render"
    /\ UpRan("render")
    /\ LET t == UnmarshalTranscript(upBackReply.body)
       IN IF t.err # Nil
          THEN UpRespond(renderPage("Failed to parse response", t.err))
          ELSE UpRespond(renderPage("Transcription Result", t.Text))
    /\ UNCHANGED <<phase, cfg, now, handlerVars, exVars, upReq, upFile,
                   upBackReply, upPosts>>

(***************************************************************************)
(* Spec: one request at a time, every input and every reply of the audio   *)
(* source and of the backend.                                              *)
(***************************************************************************)
Next ==
    \/ Startup
    \/ \E r \in OneReq :
         \/ Arrive(r, Requests)
         \/ CheckMethod(r)
         \/ ParseBody(r)
         \/ CheckMessages(r)
         \/ ExtractURL(r)
         \/ Download(r, FetchReplies)
         \/ Forward(r, BackendReplies)
         \/ ParseTranscript(r)

Spec == Init /\ [][Next]_vars

(***************************************************************************)
(* SpecPair: two requests in flight at once, interleaved in every order,   *)
(* on a smaller set of inputs and replies, while the wall clock moves on.  *)
(***************************************************************************)
PairConfigs ==
    [baseURL : {"http://whisper:9000"}, whisperModel : {"base"},
     maxAudioSize : {MaxAudio}]

PairContents == {"hello there", "see https://a/b.mp3 and http://c/d.wav"}

PairRequests ==
    {[Method |-> "POST",
      Body |-> [json |-> "object", field |-> "array", messages |-> m]] :
        m \in UNION {[1..n -> [Role : {"user"}, Content : PairContents]] :
                        n \in 0..MaxMsgs}}

PairFetchReplies ==
    {f \in FetchReplies :
        /\ f.contentLength = -1
        /\ f.readErr = Nil
        /\ f.status \in {0, 200}
        /\ f.bodyLen \in {MaxAudio, MaxBody}}

PairBackendReplies ==
    {b \in BackendReplies :
        /\ b.readErr = Nil
        /\ b.status \in {0, 200}
        /\ b.body \in {"", "{\"text\":\"hello world\"}"}}

InitPair ==
    /\ phase = "boot"
    /\ cfg \in PairConfigs
    /\ InitHandlers
    /\ InitExtractIdle

NextPair ==
    \/ Startup
    \/ Tick
    \/ \E r \in Reqs :
         \/ Arrive(r, PairRequests)
         \/ CheckMethod(r)
         \/ ParseBody(r)
         \/ CheckMessages(r)
         \/ ExtractURL(r)
         \/ Download(r, PairFetchReplies)
         \/ Forward(r, PairBackendReplies)
         \/ ParseTranscript(r)

SpecPair == InitPair /\ [][NextPair]_vars

(***************************************************************************)
(* SpecBoth: a chat-completions request and an upload in flight at once,   *)
(* interleaved in every order, under every configuration.                  *)
(***************************************************************************)
NextBoth ==
    \/ Startup
    \/ \E r \in OneReq :
         \/ Arrive(r, PairRequests)
         \/ CheckMethod(r)
         \/ ParseBody(r)
         \/ CheckMessages(r)
         \/ ExtractURL(r)
         \/ Download(r, PairFetchReplies)
         \/ Forward(r, PairBackendReplies)
         \/ ParseTranscript(r)
    \/ UpArrive
    \/ UpCheckMethod
    \/ UpParseForm
    \/ UpFormFile
    \/ UpReadFile
    \/ UpForward(PairBackendReplies)
    \/ UpRender

SpecBoth == Init /\ [][NextBoth]_vars

(***************************************************************************)
(* SpecExtract: extractURLFromText called on every text made of at most    *)
(* MaxFrags of the fragments below.                                        *)
(***************************************************************************)
Frags == {" ", "\n", "http://", "https://", "a.mp3", "see", "Http://", "http:/"}

RECURSIVE Concat(_)
Concat(ss) == IF ss = <<>> THEN "" ELSE Head(ss) \o Concat(Tail(ss))

Texts == {Concat(f) : f \in UNION {[1..n -> Frags] : n \in 0..MaxFrags}}

InitExtract ==
    /\ phase = "boot"
    /\ cfg \in PairConfigs
    /\ InitHandlers
    /\ exPc = "call"
    /\ exText \in Texts
    /\ exURL = ""
    /\ exName = ""
    /\ exErr = Nil

ExtractCall ==
    /\ exPc = "call"
    /\ exURL' = extractURLFromText(exText)
    /\ exPc' = "ret"
    /\ UNCHANGED <<phase, cfg, now, handlerVars, upVars, exText, exName, exErr>>

NextExtract == ExtractCall

SpecExtract == InitExtract /\ [][NextExtract]_vars

(***************************************************************************)
(* SpecFilename: extractFilename called on the three identifiers below and *)
(* on every identifier made of at most MaxFrags of the fragments.          *)
(***************************************************************************)
NameFrags == {".", "/", "clip", "WAV", "x"}

Names ==
    {Concat(f) : f \in UNION {[1..n -> NameFrags] : n \in 0..MaxFrags}}
    \cup {"https://x/y/clip.WAV", "https://x/y/noext", "https://x/trailing."}

InitFilename ==
    /\ phase = "boot"
    /\ cfg \in PairConfigs
    /\ InitHandlers
    /\ exPc = "fcall"
    /\ exText \in Names
    /\ exURL = ""
    /\ exName = ""
    /\ exErr = Nil

FilenameCall ==
    /\ exPc = "fcall"
    /\ exName' = extractFilename(exText).name
    /\ exErr' = extractFilename(exText).err
    /\ exPc' = "fret"
    /\ UNCHANGED <<phase, cfg, now, handlerVars, upVars, exText, exURL>>

NextFilename == FilenameCall

SpecFilename == InitFilename /\ [][NextFilename]_vars

(***************************************************************************)
(* Properties.                                                             *)
(***************************************************************************)
Served(r) == pc[r] = "done"

\* the text carried by the response written for r
Content(r) == resp[r][1].body.choices[1].message.content

Status(r) == resp[r][1].status

\* the chat handler has a step to take for r
HandlerStep(r) ==
    \/ CheckMethod(r)
    \/ ParseBody(r)
    \/ CheckMessages(r)
    \/ ExtractURL(r)
    \/ Download(r, FetchReplies)
    \/ Forward(r, BackendReplies)
    \/ ParseTranscript(r)

\* s[i..j] is a whitespace-delimited token of s
TokenAt(s, i, j) ==
    /\ 1 <= i /\ i <= j /\ j <= Len(s)
    /\ \A k \in i..j : ~IsSpace(Char(s, k))
    /\ i = 1 \/ IsSpace(Char(s, i - 1))
    /\ j = Len(s) \/ IsSpace(Char(s, j + 1))

\* ... that begins with http:// or https://
URLTokenAt(s, i, j) ==
    /\ \/ (j - i + 1 >= 7 /\ SubSeq(s, i, i + 6) = "http://")
       \/ (j - i + 1 >= 8 /\ SubSeq(s, i, i + 7) = "https://")
    /\ TokenAt(s, i, j)

HasURLToken(s) == \E i \in 1..Len(s) : \E j \in i..Len(s) : URLTokenAt(s, i, j)

\* r is a POST whose body decodes to a non-empty messages array
HasMessages(r) ==
    /\ pc[r] # "idle"
    /\ req[r].Method = "POST"
    /\ req[r].Body.json = "object"
    /\ req[r].Body.field = "array"
    /\ req[r].Body.messages # <<>>

LastContent(r) == req[r].Body.messages[Len(req[r].Body.messages)].Content

\* C1: every path through the chat handler ends with exactly one response,
\* status 200, Content-Type application/json, the fixed envelope with the
\* configured model and one choice (index 0, role assistant, finish_reason
\* stop); a request that is not yet answered has a handler step to take and
\* has been written nothing.
InvC1 ==
    \A r \in Reqs :
        /\ Served(r) => Len(resp[r]) = 1
        /\ ~Served(r) => resp[r] = <<>>
        /\ pc[r] \notin {"idle", "done"} => ENABLED HandlerStep(r)
        /\ \A i \in 1..Len(resp[r]) :
             /\ resp[r][i].status = 200
             /\ resp[r][i].contentType = "application/json"
             /\ DOMAIN resp[r][i].body =
                    {"id", "object", "created", "model", "choices"}
             /\ resp[r][i].body.id = "chatcmpl-mockid"
             /\ resp[r][i].body.object = "chat.completion"
             /\ resp[r][i].body.model = cfg.whisperModel
             /\ Len(resp[r][i].body.choices) = 1
             /\ resp[r][i].body.choices[1].index = 0
             /\ resp[r][i].body.choices[1].message.role = "assistant"
             /\ resp[r][i].body.choices[1].finish_reason = "stop"

\* a request that failed in the forwarder has been answered once, with 200
WitC1 ==
    /\ Served("r1")
    /\ ran["r1"] = SubSeq(Stages, 1, 6)
    /\ Len(resp["r1"]) = 1
    /\ Status("r1") = 200
    /\ HasPrefix(Content("r1"), "Transcription error: ")

\* the fetch of r got a response and failed at the declared-length check
FailedDeclared(r) ==
    /\ Served(r)
    /\ ran[r] = SubSeq(Stages, 1, 5)
    /\ Content(r) = "Failed to download audio: " \o ErrDeclared(cfg.maxAudioSize)

\* C2: a response that declares a content length greater than maxBytes fails
\* the fetch with the size-exceeded error before any byte of the body is read;
\* a declared length equal to maxBytes, or no declared length, does not fail
\* at this check.
InvC2 ==
    \A r \in Reqs :
        (fetchReply[r] # NoReply /\ fetchReply[r].getErr = Nil) =>
            LET cl == fetchReply[r].contentLength
            IN /\ (cl >= 0 /\ cl > cfg.maxAudioSize) =>
                      (FailedDeclared(r) /\ bytesRead[r] = 0)
               /\ (cl = -1 \/ cl = cfg.maxAudioSize) => ~FailedDeclared(r)

\* C3: against a source that declares no length, no byte beyond the
\* (maxBytes + 1)-th is read; a body of at most maxBytes bytes that ends
\* cleanly is returned whole; a body of maxBytes + 1 bytes or more fails the
\* fetch with a size-exceeded error.
InvC3 ==
    \A r \in Reqs :
        (/\ fetchReply[r] # NoReply
         /\ fetchReply[r].getErr = Nil
         /\ fetchReply[r].contentLength = -1) =>
            LET n == fetchReply[r].bodyLen
                max == cfg.maxAudioSize
                failed == Served(r) /\ ran[r] = SubSeq(Stages, 1, 5)
            IN /\ bytesRead[r] = 0 \/ bytesRead[r] <= max + 1
               /\ (n <= max /\ fetchReply[r].readErr = Nil) =>
                      (~failed /\ audioData[r] = Body(n))
               /\ n >= max + 1 =>
                      /\ failed
                      /\ Content(r) \in
                           {"Failed to download audio: " \o ErrDownloaded,
                            "Failed to download audio: " \o ErrDeclared(max)}

\* a body of exactly maxBytes bytes, no declared length, has been fetched whole
WitC3 ==
    /\ pc["r1"] = "forward"
    /\ cfg.maxAudioSize = MaxAudio
    /\ fetchReply["r1"].contentLength = -1
    /\ fetchReply["r1"].bodyLen = MaxAudio
    /\ bytesRead["r1"] = MaxAudio
    /\ audioData["r1"] = Body(MaxAudio)

\* what the backend answered r, or any reply when it was not asked
BackReplyOf(r) ==
    IF backReply[r] = NoReply
    THEN CHOOSE b \in BackendReplies : TRUE
    ELSE backReply[r]

\* C4: the checks run in the order method, body parse, empty messages, URL
\* extraction, fetch, forward, backend-body parse; the stages that have run
\* are exactly those up to the first check that fails, and the response text
\* is that check's.
InvC4 ==
    \A r \in Reqs :
        /\ ran[r] = SubSeq(Stages, 1, Len(ran[r]))
        /\ Served(r) =>
             LET q == req[r]
                 d == DecodeChatRequest(q.Body)
                 url == extractURLFromText(d.Messages[Len(d.Messages)].Content)
                 f == downloadFileWithLimit(url, cfg.maxAudioSize, fetchReply[r])
                 s == sendToTranscription(cfg.baseURL, cfg.whisperModel, url,
                                          f.data, BackReplyOf(r))
                 t == UnmarshalTranscript(s.respData)
             IN IF q.Method # "POST"
                THEN /\ ran[r] = SubSeq(Stages, 1, 1)
                     /\ Content(r) = "Method not allowed"
                ELSE IF d.err # Nil
                THEN /\ ran[r] = SubSeq(Stages, 1, 2)
                     /\ Content(r) = "Invalid JSON: " \o d.err
                ELSE IF d.Messages = <<>>
                THEN /\ ran[r] = SubSeq(Stages, 1, 3)
                     /\ Content(r) = "No messages provided"
                ELSE IF url = ""
                THEN /\ ran[r] = SubSeq(Stages, 1, 4)
                     /\ Content(r) = "No audio URL found in message"
                ELSE IF f.err # Nil
                THEN /\ ran[r] = SubSeq(Stages, 1, 5)
                     /\ Content(r) = "Failed to download audio: " \o f.err
                ELSE IF s.err # Nil
                THEN /\ ran[r] = SubSeq(Stages, 1, 6)
                     /\ Content(r) = "Transcription error: " \o s.err
                ELSE IF t.err # Nil
                THEN /\ ran[r] = Stages
                     /\ Content(r) = "Invalid transcription response: " \o t.err
                ELSE /\ ran[r] = Stages
                     /\ Content(r) = t.Text

\* a GET whose body is not JSON has been answered by the method check alone
WitC4 ==
    /\ Served("r1")
    /\ req["r1"].Method = "GET"
    /\ req["r1"].Body.json = "invalid"
    /\ ran["r1"] = <<"method">>
    /\ Content("r1") = "Method not allowed"

\* the transcripts the backend bodies of the model carry
TranscriptTexts == {"hello world", ""}

\* the backend answered r's POST with a body that was read whole
BackendAnswered(r) ==
    /\ backReply[r] # NoReply
    /\ backReply[r].doErr = Nil
    /\ backReply[r].readErr = Nil

\* C5: when the fetch succeeded and the backend's body is {"text": t}, the
\* response is status 200 with content t and nothing else, whatever the
\* backend's status code.
InvC5 ==
    \A r \in Reqs : \A t \in TranscriptTexts :
        (BackendAnswered(r) /\ backReply[r].body = "{\"text\":\"" \o t \o "\"}") =>
            /\ pc[r] \in {"unmarshal", "done"}
            /\ Served(r) => (Content(r) = t /\ Status(r) = 200)

\* a transcript sent with backend status 500 has been passed on as it is
WitC5 ==
    /\ Served("r1")
    /\ BackendAnswered("r1")
    /\ backReply["r1"].status = 500
    /\ backReply["r1"].body = "{\"text\":\"hello world\"}"
    /\ HasURLToken(LastContent("r1"))
    /\ audioData["r1"] = Body(MaxAudio)
    /\ Content("r1") = "hello world"

\* backend bodies that are not a JSON value with a string "text"
BadBackendBodies == {"not json", "", "{\"text\":5}"}

\* C6: when fetch and forward succeeded and the backend's body does not parse
\* as {text: string}, the response is status 200 and its content is
\* "Invalid transcription response: " followed by a non-empty cause.
InvC6 ==
    \A r \in Reqs :
        (BackendAnswered(r) /\ backReply[r].body \in BadBackendBodies) =>
            /\ pc[r] \in {"unmarshal", "done"}
            /\ Served(r) =>
                 /\ Status(r) = 200
                 /\ HasPrefix(Content(r), "Invalid transcription response: ")
                 /\ Len(Content(r)) > Len("Invalid transcription response: ")
                 /\ ran[r] = Stages

\* a backend body that is not JSON has been answered with the parse error
WitC6 ==
    /\ Served("r1")
    /\ BackendAnswered("r1")
    /\ backReply["r1"].body = "not json"
    /\ HasPrefix(Content("r1"), "Invalid transcription response: invalid character")

\* r is a POST whose body is an object with no, a null or an empty messages
EmptyMessages(r) ==
    /\ pc[r] # "idle"
    /\ req[r].Method = "POST"
    /\ req[r].Body.json = "object"
    /\ \/ req[r].Body.field \in {"absent", "null"}
       \/ req[r].Body.field = "array" /\ req[r].Body.messages = <<>>

\* C7: a request whose messages are absent, null or empty is answered
\* "No messages provided" with status 200, and neither the audio source nor
\* the backend is contacted for it.
InvC7 ==
    \A r \in Reqs :
        EmptyMessages(r) =>
            /\ gets[r] = <<>>
            /\ posts[r] = <<>>
            /\ pc[r] \in {"method", "parse", "messages", "done"}
            /\ Served(r) =>
                 (Content(r) = "No messages provided" /\ Status(r) = 200)

\* a request with "messages": null has been answered
WitC7 ==
    /\ Served("r1")
    /\ EmptyMessages("r1")
    /\ req["r1"].Body.field = "null"
    /\ Content("r1") = "No messages provided"

\* C8: when the last message holds no whitespace-delimited token that starts
\* with http:// or https://, the response text is "No audio URL found in
\* message" and no GET and no POST is issued.
InvC8 ==
    \A r \in Reqs :
        (HasMessages(r) /\ ~HasURLToken(LastContent(r))) =>
            /\ gets[r] = <<>>
            /\ posts[r] = <<>>
            /\ pc[r] \in {"method", "parse", "messages", "extract", "done"}
            /\ Served(r) => Content(r) = "No audio URL found in message"

\* a last message with the scheme inside a token, and in upper case, has been
\* answered
WitC8 ==
    /\ Served("r1")
    /\ HasMessages("r1")
    /\ LastContent("r1") = "xhttp://a.mp3 HTTPS://B.MP3"
    /\ Content("r1") = "No audio URL found in message"
    /\ gets["r1"] = <<>>

\* C9: extractURLFromText returns the leftmost whitespace-delimited token that
\* starts with http:// or https://, as it stands in the text, and the empty
\* string exactly when there is no such token.
InvC9 ==
    exPc = "ret" =>
        IF HasURLToken(exText)
        THEN \E i \in 1..Len(exText) : \E j \in i..Len(exText) :
                /\ URLTokenAt(exText, i, j)
                /\ exURL = SubSeq(exText, i, j)
                /\ \A i2 \in 1..(i - 1) : \A j2 \in i2..Len(exText) :
                      ~URLTokenAt(exText, i2, j2)
        ELSE exURL = ""

\* a text with two qualifying tokens, the bare scheme first
WitC9 ==
    /\ exPc = "ret"
    /\ exText = "http:// https://"
    /\ exURL = "http://"

\* C10: only the last message is read: the URL fetched is the one extracted
\* from the last message; a URL in an earlier message alone yields "No audio
\* URL found in message"; two requests that agree on the last message and on
\* what the audio source and the backend answered get the same response text
\* and issue the same GET and POST, whatever their earlier messages are.
InvC10 ==
    /\ \A r \in Reqs :
         HasMessages(r) =>
            /\ pc[r] \in {"fetch", "forward", "unmarshal", "done"} =>
                 audioURL[r] = extractURLFromText(LastContent(r))
            /\ \A i \in 1..Len(gets[r]) :
                 gets[r][i] = extractURLFromText(LastContent(r))
            /\ (~HasURLToken(LastContent(r)) /\ Served(r)) =>
                 Content(r) = "No audio URL found in message"
    /\ \A r1 \in Reqs : \A r2 \in Reqs :
         (/\ Served(r1) /\ Served(r2)
          /\ HasMessages(r1) /\ HasMessages(r2)
          /\ LastContent(r1) = LastContent(r2)
          /\ fetchReply[r1] = fetchReply[r2]
          /\ backReply[r1] = backReply[r2]) =>
            /\ Content(r1) = Content(r2)
            /\ gets[r1] = gets[r2]
            /\ posts[r1] = posts[r2]

\* two answered requests with the same last message, one with a URL in an
\* earlier message and one without
WitC10 ==
    /\ Served("r1") /\ Served("r2")
    /\ Len(req["r1"].Body.messages) = 2
    /\ Len(req["r2"].Body.messages) = 2
    /\ HasURLToken(req["r1"].Body.messages[1].Content)
    /\ ~HasURLToken(req["r2"].Body.messages[1].Content)
    /\ LastContent("r1") = LastContent("r2")
    /\ ~HasURLToken(LastContent("r1"))
    /\ Content("r1") = "No audio URL found in message"
    /\ Content("r2") = "No audio URL found in message"

\* the 1-based positions of the dots of s
DotsOf(s) == {i \in 1..Len(s) : Char(s, i) = "."}

\* s has no dot, or nothing after its last dot
NoUsableExtension(s) == DotsOf(s) = {} \/ Len(s) \in DotsOf(s)

\* C11: extractFilename fails exactly when its input has no dot or ends with
\* its last dot; otherwise it returns "audio" followed by the input from its
\* last dot on, case kept: "https://x/y/clip.WAV" gives "audio.WAV",
\* "https://x/y/noext" and "https://x/trailing." fail.
InvC11 ==
    exPc = "fret" =>
        /\ IF NoUsableExtension(exText)
           THEN exErr = ErrExtension /\ exName = ""
           ELSE /\ exErr = Nil
                /\ \E d \in DotsOf(exText) :
                     /\ \A e \in DotsOf(exText) : e <= d
                     /\ exName = "audio" \o SubSeq(exText, d, Len(exText))
        /\ exText = "https://x/y/clip.WAV" => exName = "audio.WAV"
        /\ exText \in {"https://x/y/noext", "https://x/trailing."} =>
             exErr # Nil

\* an identifier with two dots and an upper-case extension
WitC11 ==
    /\ exPc = "fret"
    /\ exText = "..WAV"
    /\ exName = "audio.WAV"
    /\ exErr = Nil

UpServed == upPc = "done"

UpStatus == upResp[1].status

\* the upload's body is not a multipart form, or is one without a byte, or is
\* longer than the ceiling
BadForm(q) ==
    \/ q.form # "multipart"
    \/ q.bodyLen = 0
    \/ q.bodyLen > (IF cfg.maxAudioSize > 0 THEN cfg.maxAudioSize ELSE 0)

\* C12 as claimed: the upload ingress answers with a status other than 200
\* only for an oversized or malformed form and a missing file part (400) and
\* for a failure reading the file (500).
CexC12 ==
    (UpServed /\ UpStatus # 200) =>
        \/ UpStatus = 400 /\ (BadForm(upReq) \/ ~upReq.hasFile)
        \/ UpStatus = 500 /\ upReq.readErr # Nil

\* C12, amended: the upload ingress answers 405 to a method other than POST,
\* else 400 to an oversized or malformed form, else 400 to a missing file
\* part, else 500 to a failure reading the file; every other outcome, the
\* forwarder's failure and the backend body's parse failure included, is an
\* HTML page with status 200.  Exactly one response is written.
InvC12 ==
    /\ UpServed => Len(upResp) = 1
    /\ ~UpServed => upResp = <<>>
    /\ UpServed =>
         IF upReq.Method # "POST" THEN UpStatus = 405
         ELSE IF BadForm(upReq) THEN UpStatus = 400
         ELSE IF ~upReq.hasFile THEN UpStatus = 400
         ELSE IF upReq.readErr # Nil THEN UpStatus = 500
         ELSE /\ UpStatus = 200
              /\ upResp[1].contentType = "text/html; charset=utf-8"
              /\ Len(upRan) >= 5

\* an upload whose forwarding failed in the transport has been answered with
\* a 200 page
WitC12 ==
    /\ UpServed
    /\ upRan = SubSeq(UploadStages, 1, 5)
    /\ upBackReply # NoReply
    /\ upBackReply.doErr # Nil
    /\ UpStatus = 200
    /\ HasPrefix(upResp[1].body, "<h3>Error: ")

\* C13: the process gets past startup only with a non-empty backend URL, a
\* non-empty model and a maximum audio size greater than 0; no request is
\* received under a maximum audio size of 0 or less.
InvC13 ==
    /\ phase = "serving" =>
         /\ cfg.baseURL # ""
         /\ cfg.whisperModel # ""
         /\ cfg.maxAudioSize > 0
    /\ (upPc # "idle" \/ \E r \in Reqs : pc[r] # "idle") =>
         (phase = "serving" /\ cfg.maxAudioSize > 0)

\* the text the chat handler owes a request, from the request, the
\* configuration and what the audio source and the backend answered it
ChatText(q, fr, br) ==
    LET d == DecodeChatRequest(q.Body)
        url == extractURLFromText(d.Messages[Len(d.Messages)].Content)
        f == downloadFileWithLimit(url, cfg.maxAudioSize, fr)
        s == sendToTranscription(cfg.baseURL, cfg.whisperModel, url, f.data, br)
        t == UnmarshalTranscript(s.respData)
    IN IF q.Method # "POST" THEN "Method not allowed"
       ELSE IF d.err # Nil THEN "Invalid JSON: " \o d.err
       ELSE IF d.Messages = <<>> THEN "No messages provided"
       ELSE IF url = "" THEN "No audio URL found in message"
       ELSE IF f.err # Nil THEN "Failed to download audio: " \o f.err
       ELSE IF s.err # Nil THEN "Transcription error: " \o s.err
       ELSE IF t.err # Nil THEN "Invalid transcription response: " \o t.err
       ELSE t.Text

\* the page or error the upload handler owes a request, from the request, the
\* configuration and what the backend answered it
UploadResponse(q, br) ==
    LET s == sendToTranscription(cfg.baseURL, cfg.whisperModel, q.filename,
                                 Body(q.fileLen), br)
        t == UnmarshalTranscript(s.respData)
    IN IF q.Method # "POST" THEN httpError("Only POST supported", 405)
       ELSE IF BadForm(q) THEN httpError("File too large", 400)
       ELSE IF ~q.hasFile THEN httpError("Missing file", 400)
       ELSE IF q.readErr # Nil THEN httpError("Failed to read file", 500)
       ELSE IF s.err # Nil THEN renderPage("Error", s.err)
       ELSE IF t.err # Nil THEN renderPage("Failed to parse response", t.err)
       ELSE renderPage("Transcription Result", t.Text)

\* the variables of chat request r
ChatVarsOf(r) ==
    <<pc[r], req[r], chatReq[r], audioURL[r], audioData[r], respBody[r],
      fetchReply[r], backReply[r], bytesRead[r], gets[r], posts[r], ran[r],
      resp[r]>>

\* C14: with a chat request and an upload in flight in any interleaving, a
\* step of one request writes nothing of the other and nothing shared (the
\* configuration is fixed once startup is over), and each response is the
\* function of the request's own input and of the replies given to it.
PropC14 ==
    /\ [](/\ \A r \in Reqs :
               Served(r) =>
                   Content(r) = ChatText(req[r], fetchReply[r], BackReplyOf(r))
          /\ UpServed =>
               upResp[1] = UploadResponse(upReq,
                                          IF upBackReply = NoReply
                                          THEN CHOOSE b \in BackendReplies : TRUE
                                          ELSE upBackReply))
    /\ [][/\ cfg' = cfg
          /\ phase = "serving" => phase' = "serving"
          /\ upVars' # upVars => handlerVars' = handlerVars
          /\ \A r \in Reqs :
               ChatVarsOf(r)' # ChatVarsOf(r) =>
                   /\ upVars' = upVars
                   /\ \A o \in Reqs \ {r} : ChatVarsOf(o)' = ChatVarsOf(o)]_vars

\* both requests answered from the backend, the upload having been forwarded
\* while the chat request was waiting to parse its transcript
WitC14 ==
    /\ Served("r1")
    /\ UpServed
    /\ ran["r1"] = Stages
    /\ upRan = UploadStages
    /\ backReply["r1"].body # upBackReply.body

\* the audio source and the backend answered r and o alike
SameReplies(r, o) ==
    /\ fetchReply[r] = fetchReply[o]
    /\ backReply[r] = backReply[o]

\* C15: two chat requests with the same method and body, answered alike by
\* the audio source and by the backend, get the same content; their whole
\* responses are equal once the created field is set aside.
InvC15 ==
    \A r, o \in Reqs :
        (Served(r) /\ Served(o) /\ req[r] = req[o] /\ SameReplies(r, o)) =>
            /\ Content(r) = Content(o)
            /\ [resp[r][1] EXCEPT !.body.created = 0]
                 = [resp[o][1] EXCEPT !.body.created = 0]

\* the same request transcribed twice, the clock having moved in between
WitC15 ==
    /\ Served("r1") /\ Served("r2")
    /\ req["r1"] = req["r2"]
    /\ SameReplies("r1", "r2")
    /\ posts["r1"] # <<>> /\ posts["r2"] # <<>>
    /\ resp["r1"][1].body.created # resp["r2"][1].body.created
    /\ Content("r1") = "hello world"
    /\ Content("r2") = "hello world"

\* the GET made for r did not return a body within the ceiling
FetchFailed(r) ==
    /\ fetchReply[r] # NoReply
    /\ \/ fetchReply[r].getErr # Nil
       \/ fetchReply[r].contentLength > cfg.maxAudioSize
       \/ fetchReply[r].bodyLen > cfg.maxAudioSize
       \/ fetchReply[r].readErr # Nil

\* C16: a chat request makes at most one GET and at most one POST; a POST is
\* made only after the GET returned a body within the ceiling, and carries
\* that body; a fetch that fails is answered "Failed to download audio:
\* <cause>" and the backend is not contacted for that request.
InvC16 ==
    \A r \in Reqs :
        /\ Len(gets[r]) <= 1
        /\ Len(posts[r]) <= 1
        /\ (fetchReply[r] # NoReply) = (gets[r] # <<>>)
        /\ (backReply[r] # NoReply) = (posts[r] # <<>>)
        /\ posts[r] # <<>> =>
               /\ gets[r] = <<audioURL[r]>>
               /\ ~FetchFailed(r)
               /\ fetchReply[r].bodyLen <= cfg.maxAudioSize
               /\ posts[r][1].file = Body(fetchReply[r].bodyLen)
        /\ FetchFailed(r) =>
               /\ Served(r)
               /\ ran[r] = SubSeq(Stages, 1, 5)
               /\ HasPrefix(Content(r), "Failed to download audio: ")
               /\ Len(Content(r)) > Len("Failed to download audio: ")
               /\ posts[r] = <<>>

\* one GET and then one POST were made for a request that has been answered
WitC16 ==
    /\ Served("r1")
    /\ Len(gets["r1"]) = 1
    /\ Len(posts["r1"]) = 1
    /\ posts["r1"][1].file = Body(MaxAudio)
    /\ backReply["r1"].doErr # Nil

\* the forward stage has run for r
Forwarded(r) == \E i \in 1..Len(ran[r]) : ran[r][i] = "forward"

\* C17: for a source identifier with no usable extension, sendToTranscription
\* returns the filename-derivation error and sends nothing, whatever the
\* backend would answer; the chat handler then answers "Transcription error:
\* <that error>" with status 200, having made its GET and read the audio.
InvC17 ==
    \A r \in Reqs :
        (audioURL[r] # "" /\ NoUsableExtension(audioURL[r])) =>
            /\ \A reply \in BackendReplies :
                 LET s == sendToTranscription(cfg.baseURL, cfg.whisperModel,
                                              audioURL[r], audioData[r], reply)
                 IN s.err = ErrExtension /\ s.sent = <<>>
            /\ posts[r] = <<>>
            /\ backReply[r] = NoReply
            /\ Forwarded(r) =>
                 /\ Served(r)
                 /\ Status(r) = 200
                 /\ Content(r) = "Transcription error: " \o ErrExtension
                 /\ gets[r] = <<audioURL[r]>>
                 /\ ~FetchFailed(r)
                 /\ audioData[r] = Body(fetchReply[r].bodyLen)
                 /\ bytesRead[r] = fetchReply[r].bodyLen

\* a URL without an extension was fetched whole and then refused
WitC17 ==
    /\ Served("r1")
    /\ audioURL["r1"] = "http://h/noext"
    /\ Forwarded("r1")
    /\ bytesRead["r1"] = MaxAudio
    /\ Content("r1") = "Transcription error: " \o ErrExtension

\* the statuses an audio source answers with in the model, and one more
FetchStatuses == {200, 404, 500}

\* C18: a GET that fails in transport fails the fetch with "HTTP get failed:
\* <cause>"; the status of a response is not looked at, so a response of any
\* status whose body is within the ceiling is a successful fetch, and its
\* body is what the backend is sent as the file.
InvC18 ==
    \A r \in Reqs :
        fetchReply[r] # NoReply =>
            /\ fetchReply[r].getErr # Nil =>
                 /\ Served(r)
                 /\ ran[r] = SubSeq(Stages, 1, 5)
                 /\ Content(r) = "Failed to download audio: HTTP get failed: "
                                    \o fetchReply[r].getErr
                 /\ audioData[r] = <<>>
                 /\ bytesRead[r] = 0
            /\ \A st \in FetchStatuses :
                 downloadFileWithLimit(audioURL[r], cfg.maxAudioSize,
                                       [fetchReply[r] EXCEPT !.status = st])
                   = downloadFileWithLimit(audioURL[r], cfg.maxAudioSize,
                                           fetchReply[r])
            /\ ~FetchFailed(r) =>
                 /\ ~(Served(r) /\ ran[r] = SubSeq(Stages, 1, 5))
                 /\ audioData[r] = Body(fetchReply[r].bodyLen)
                 /\ (/\ Forwarded(r)
                     /\ ~NoUsableExtension(audioURL[r])
                     /\ NewRequestErr(cfg.baseURL \o "/v1/audio/transcriptions")
                          = Nil) =>
                        /\ Len(posts[r]) = 1
                        /\ posts[r][1].file = Body(fetchReply[r].bodyLen)

\* the body of a 404 response was sent to the backend and transcribed
WitC18 ==
    /\ Served("r1")
    /\ fetchReply["r1"] # NoReply
    /\ fetchReply["r1"].status = 404
    /\ fetchReply["r1"].bodyLen = 1
    /\ Len(posts["r1"]) = 1
    /\ posts["r1"][1].file = Body(1)
    /\ Content("r1") = "hello world"

\* the audio handed to sendToTranscription so far, on either ingress
HandedOver ==
    {audioData[r] : r \in {o \in Reqs : pc[o] = "forward" \/ Forwarded(o)}}
    \cup (IF upPc = "forward" \/ \E i \in 1..Len(upRan) : upRan[i] = "forward"
          THEN {upFile} ELSE {})

\* C19: on the chat path and on the upload path, the audio handed to
\* sendToTranscription, and every file part sent to the backend, is at most
\* the configured maximum audio size long; an upload is read only from a
\* request body that is itself within that ceiling.
InvC19 ==
    /\ \A a \in HandedOver : Len(a) <= cfg.maxAudioSize
    /\ \A r \in Reqs : \A i \in 1..Len(posts[r]) :
         Len(posts[r][i].file) <= cfg.maxAudioSize
    /\ \A i \in 1..Len(upPosts) : Len(upPosts[i].file) <= cfg.maxAudioSize
    /\ upFile # <<>> => upReq.bodyLen <= cfg.maxAudioSize

\* a fetched file of exactly the ceiling and the largest upload that fits in
\* a body of the ceiling have both been sent to the backend
WitC19 ==
    /\ Len(posts["r1"]) = 1
    /\ Len(posts["r1"][1].file) = MaxAudio
    /\ Len(upPosts) = 1
    /\ upReq.bodyLen = MaxAudio
    /\ Len(upPosts[1].file) = MaxAudio - 1
    /\ cfg.maxAudioSize = MaxAudio

====
